---- MODULE Spec2Model ----
(***************************************************************************)
(* Kai MB Mechanic booking app (src/app.py): slot generation, the          *)
(* availability filter, the booking store and the customer / admin         *)
(* handlers that drive them.                                               *)
(*                                                                         *)
(* Representation.                                                         *)
(*  - A text value is a tuple of one-character strings, so that strip,     *)
(*    replace, split, int() and strftime are computed character by         *)
(*    character.                                                           *)
(*  - A date is the number of days since a Monday; a datetime is the       *)
(*    number of minutes since 00:00 of day 0; a time of day is a record    *)
(*    [hour, minute].  booking_date holds the day number: isoformat() is   *)
(*    injective and order preserving and the code only compares dates.     *)
(*  - The SQLite file behind a connection is the record                    *)
(*    [rows, seq]: the table in rowid order and the AUTOINCREMENT counter. *)
(*  - A Streamlit script run of a customer session is cut where it reads   *)
(*    or writes the shared table: the availability computation (lines      *)
(*    235-251), the validation of the button handler (264-277) and the     *)
(*    insert (279-301).  Sessions run in separate threads, so the steps    *)
(*    of different sessions interleave.                                    *)
(*    The list comprehension of line 244 (one query per slot) is taken as  *)
(*    one read of the table.                                               *)
(*  - The time-slot selectbox returns one of the options it is given in    *)
(*    that run (line 251); which one is the customer's choice.             *)
(*  - The admin steps are those taken once the password matched (311).     *)
(*  - Columns that are copied from the form to the row and never read      *)
(*    again (created_at, address, bike_type, notes, service_name, addons, *)
(*    travel_zone) are left out of the rows.                               *)
(***************************************************************************)
EXTENDS Integers, Sequences, FiniteSets, TLC

VARIABLES db, now, sess, probe

vars == <<db, now, sess, probe>>

(* ------------------------------ bounds -------------------------------- *)

\* rows the table may hold before customers stop submitting
MaxBookings == 2

\* clock steps after the initial instant
MaxTicks == 2

\* minutes the clock advances in one step
TickMinutes == 30

\* concurrent browser sessions
Sessions == {"s1", "s2"}

\* the instant the model starts at: Saturday (day 5) 14:30
StartNow == (5 * 24 * 60) + (14 * 60) + 30

\* the dates a customer tries in the date picker: a Saturday and a Sunday
DatesTried == {5, 6}

\* Python's None where a text is expected: no text of characters equals it
None == <<"None">>

(* --------------------------- configuration ---------------------------- *)

SERVICES ==
    [n \in {"Safety Tune ($99)", "Full Service ($189)",
            "Family / 2 Bikes ($299)", "Family / 3 Bikes ($420)"} |->
        CASE n = "Safety Tune ($99)" -> 99
          [] n = "Full Service ($189)" -> 189
          [] n = "Family / 2 Bikes ($299)" -> 299
          [] OTHER -> 420]

ADDONS ==
    [n \in {"Tube install labour (+$35)", "Brake pads install labour (+$40)",
            "Chain install labour (+$40)", "Deep drivetrain clean (+$60)",
            "E-bike inspection (+$40)"} |->
        CASE n = "Tube install labour (+$35)" -> 35
          [] n = "Deep drivetrain clean (+$60)" -> 60
          [] OTHER -> 40]

TRAVEL_ZONES ==
    [n \in {"Included area (no travel fee)", "Outside area (+$20 travel fee)",
            "Farther area (+$40 travel fee)"} |->
        CASE n = "Included area (no travel fee)" -> 0
          [] n = "Outside area (+$20 travel fee)" -> 20
          [] OTHER -> 40]

WORK_DAYS == {0, 1, 2, 3, 4, 5}

DAY_START == [hour |-> 9, minute |-> 0]

DAY_END == [hour |-> 18, minute |-> 0]

SLOT_MINUTES == 60

MAX_DAYS_AHEAD == 30

MIN_LEAD_TIME_MINUTES == 60

STATUSES == <<"new", "confirmed", "done", "cancelled">>

(* ------------------------- dates, times, text ------------------------- *)

weekday(d) == d % 7

combine(d, t) == (d * 24 * 60) + (t.hour * 60) + t.minute

date_of(dt) == dt \div (24 * 60)

time_of(dt) == [hour |-> (dt % (24 * 60)) \div 60, minute |-> dt % 60]

DIGITS == <<"0", "1", "2", "3", "4", "5", "6", "7", "8", "9">>

isdigit(c) == \E i \in 1..Len(DIGITS) : DIGITS[i] = c

digit_value(c) == (CHOOSE i \in 1..Len(DIGITS) : DIGITS[i] = c) - 1

isspace(c) == c = " "

\* "%H:%M": two zero-padded decimal fields
strftime(t) ==
    <<DIGITS[(t.hour \div 10) + 1], DIGITS[(t.hour % 10) + 1], ":",
      DIGITS[(t.minute \div 10) + 1], DIGITS[(t.minute % 10) + 1]>>

RECURSIVE lstrip(_)
lstrip(s) == IF s # <<>> /\ isspace(Head(s)) THEN lstrip(Tail(s)) ELSE s

RECURSIVE rstrip(_)
rstrip(s) ==
    IF s # <<>> /\ isspace(s[Len(s)]) THEN rstrip(SubSeq(s, 1, Len(s) - 1)) ELSE s

strip(s) == rstrip(lstrip(s))

\* str.replace(c, ""): drop every occurrence of the character c
remove_char(s, c) == SelectSeq(s, LAMBDA x : x # c)

\* str.split(":"): the pieces between the colons
RECURSIVE split_colon(_, _)
split_colon(s, piece) ==
    IF s = <<>> THEN <<piece>>
    ELSE IF Head(s) = ":" THEN <<piece>> \o split_colon(Tail(s), <<>>)
    ELSE split_colon(Tail(s), Append(piece, Head(s)))

\* int(text) of an unsigned decimal; Python raises on anything else
int_ok(s) == s # <<>> /\ \A i \in 1..Len(s) : isdigit(s[i])

RECURSIVE int_of(_)
int_of(s) ==
    IF s = <<>> THEN 0 ELSE (int_of(SubSeq(s, 1, Len(s) - 1)) * 10) + digit_value(s[Len(s)])

(* ------------------------- src/app.py helpers ------------------------- *)

\* lines 114-117
normalize_phone(p) == remove_char(remove_char(strip(p), " "), "-")

\* lines 120-122
is_valid_phone(p) ==
    LET digits == SelectSeq(p, isdigit)
    IN  9 <= Len(digits) /\ Len(digits) <= 12

\* the while loop with a strict end-boundary test
RECURSIVE slots_from_strict(_, _, _)
slots_from_strict(dt, end_dt, slot_minutes) ==
    IF dt + slot_minutes < end_dt
    THEN <<strftime(time_of(dt))>> \o slots_from_strict(dt + slot_minutes, end_dt, slot_minutes)
    ELSE <<>>

\* lines 131-133: the while loop, from dt on
RECURSIVE slots_from(_, _, _)
slots_from(dt, end_dt, slot_minutes) ==
    IF dt + slot_minutes <= end_dt
    THEN <<strftime(time_of(dt))>> \o slots_from(dt + slot_minutes, end_dt, slot_minutes)
    ELSE <<>>

\* lines 125-134 with the work schedule as parameters
generate_slots_for(for_day, work_days, day_start, day_end, slot_minutes) ==
    IF weekday(for_day) \notin work_days
    THEN <<>>
    ELSE slots_from(combine(for_day, day_start), combine(for_day, day_end), slot_minutes)

\* generate_slots without the work-day test of lines 126-127
generate_slots_any_day(for_day) ==
    slots_from(combine(for_day, DAY_START), combine(for_day, DAY_END), SLOT_MINUTES)

\* lines 125-134 under the configured schedule
generate_slots(for_day) ==
    generate_slots_for(for_day, WORK_DAYS, DAY_START, DAY_END, SLOT_MINUTES)

\* slot_taken that looks at the time of day only, not at the date
slot_taken_other_day(conn, d, t) ==
    Cardinality({i \in 1..Len(conn.rows) :
        /\ conn.rows[i].booking_date # d
        /\ conn.rows[i].booking_time = t
        /\ conn.rows[i].status # "cancelled"}) > 0

\* slot_taken that lets only new rows block a slot
slot_taken_new_only(conn, d, t) ==
    Cardinality({i \in 1..Len(conn.rows) :
        /\ conn.rows[i].booking_date = d
        /\ conn.rows[i].booking_time = t
        /\ conn.rows[i].status = "new"}) > 0

\* slot_taken that counts cancelled rows too
slot_taken_any_status(conn, d, t) ==
    Cardinality({i \in 1..Len(conn.rows) :
        /\ conn.rows[i].booking_date = d
        /\ conn.rows[i].booking_time = t}) > 0

\* lines 137-142
slot_taken(conn, d, t) ==
    Cardinality({i \in 1..Len(conn.rows) :
        /\ conn.rows[i].booking_date = d
        /\ conn.rows[i].booking_time = t
        /\ conn.rows[i].status # "cancelled"}) > 0

\* lines 146-150: the try block; FALSE when it raises
parse_ok(chosen_time_str) ==
    LET parts == split_colon(chosen_time_str, <<>>)
    IN  /\ Len(parts) = 2
        /\ int_ok(parts[1])
        /\ int_ok(parts[2])
        /\ int_of(parts[1]) <= 23
        /\ int_of(parts[2]) <= 59

\* lead_time_ok with a strict comparison
lead_time_ok_strict(chosen_day, chosen_time_str, clock) ==
    IF ~parse_ok(chosen_time_str)
    THEN TRUE
    ELSE LET parts == split_colon(chosen_time_str, <<>>)
             chosen_dt == combine(chosen_day,
                            [hour |-> int_of(parts[1]), minute |-> int_of(parts[2])])
         IN  chosen_dt > clock + MIN_LEAD_TIME_MINUTES

\* lines 145-151; clock is datetime.now()
lead_time_ok(chosen_day, chosen_time_str, clock) ==
    IF ~parse_ok(chosen_time_str)
    THEN TRUE
    ELSE LET parts == split_colon(chosen_time_str, <<>>)
             chosen_dt == combine(chosen_day,
                            [hour |-> int_of(parts[1]), minute |-> int_of(parts[2])])
         IN  chosen_dt >= clock + MIN_LEAD_TIME_MINUTES

\* a table without the NOT NULL constraints
not_null_unchecked(b) == TRUE

\* the NOT NULL columns of lines 91-107 reject a None
not_null_ok(b) ==
    /\ b.customer_name # None
    /\ b.phone # None
    /\ b.suburb # None
    /\ b.booking_time # None

\* insert_booking that numbers the row after the rows that are not cancelled
insert_booking_count_id(conn, b) ==
    IF ~not_null_ok(b)
    THEN conn
    ELSE [rows |-> Append(conn.rows,
                     [id |-> Cardinality({i \in 1..Len(conn.rows) :
                                 conn.rows[i].status # "cancelled"}) + 1,
                      customer_name |-> b.customer_name,
                      phone |-> b.phone,
                      suburb |-> b.suburb,
                      service_price |-> b.service_price,
                      addons_price |-> b.addons_price,
                      travel_fee |-> b.travel_fee,
                      booking_date |-> b.booking_date,
                      booking_time |-> b.booking_time,
                      status |-> b.status]),
          seq |-> conn.seq + 1]

\* insert_booking that inserts only while the slot is free
insert_booking_if_free(conn, b) ==
    IF b.booking_time = None \/ slot_taken(conn, b.booking_date, b.booking_time)
    THEN conn
    ELSE [rows |-> Append(conn.rows,
                     [id |-> conn.seq + 1,
                      customer_name |-> b.customer_name,
                      phone |-> b.phone,
                      suburb |-> b.suburb,
                      service_price |-> b.service_price,
                      addons_price |-> b.addons_price,
                      travel_fee |-> b.travel_fee,
                      booking_date |-> b.booking_date,
                      booking_time |-> b.booking_time,
                      status |-> b.status]),
          seq |-> conn.seq + 1]

\* lines 154-182: the row gets the next AUTOINCREMENT id; a constraint
\* failure raises and leaves the table as it was
insert_booking(conn, b) ==
    IF ~not_null_ok(b)
    THEN conn
    ELSE [rows |-> Append(conn.rows,
                     [id |-> conn.seq + 1,
                      customer_name |-> b.customer_name,
                      phone |-> b.phone,
                      suburb |-> b.suburb,
                      service_price |-> b.service_price,
                      addons_price |-> b.addons_price,
                      travel_fee |-> b.travel_fee,
                      booking_date |-> b.booking_date,
                      booking_time |-> b.booking_time,
                      status |-> b.status]),
          seq |-> conn.seq + 1]

\* update_status that leaves a done row as it is
update_status_keep_done(conn, booking_id, new_status) ==
    [conn EXCEPT !.rows =
        [i \in 1..Len(conn.rows) |->
            IF conn.rows[i].id = booking_id /\ conn.rows[i].status # "done"
            THEN [conn.rows[i] EXCEPT !.status = new_status]
            ELSE conn.rows[i]]]

\* an UPDATE without its WHERE clause
update_status_every_row(conn, booking_id, new_status) ==
    [conn EXCEPT !.rows =
        [i \in 1..Len(conn.rows) |-> [conn.rows[i] EXCEPT !.status = new_status]]]

\* lines 191-193
update_status(conn, booking_id, new_status) ==
    [conn EXCEPT !.rows =
        [i \in 1..Len(conn.rows) |->
            IF conn.rows[i].id = booking_id
            THEN [conn.rows[i] EXCEPT !.status = new_status]
            ELSE conn.rows[i]]]

\* byte value of a character (BINARY collation of TEXT columns)
char_code(c) ==
    IF isdigit(c) THEN 48 + digit_value(c)
    ELSE IF c = ":" THEN 58
    ELSE IF c = "-" THEN 45
    ELSE IF c = " " THEN 32
    ELSE 65

RECURSIVE text_less(_, _)
text_less(a, b) ==
    IF b = <<>> THEN FALSE
    ELSE IF a = <<>> THEN TRUE
    ELSE IF char_code(Head(a)) # char_code(Head(b))
         THEN char_code(Head(a)) < char_code(Head(b))
         ELSE text_less(Tail(a), Tail(b))

\* ORDER BY booking_date DESC, booking_time DESC, id DESC: r comes before q
order_before(r, q) ==
    \/ r.booking_date > q.booking_date
    \/ /\ r.booking_date = q.booking_date
       /\ text_less(q.booking_time, r.booking_time)
    \/ /\ r.booking_date = q.booking_date
       /\ r.booking_time = q.booking_time
       /\ r.id > q.id

\* the sorted sequence df with row r put at its place in the ORDER BY order
RECURSIVE ordered_insert(_, _)
ordered_insert(df, r) ==
    IF df = <<>> THEN <<r>>
    ELSE IF order_before(r, Head(df)) THEN <<r>> \o df
    ELSE <<Head(df)>> \o ordered_insert(Tail(df), r)

RECURSIVE ordered(_)
ordered(rows) ==
    IF rows = <<>> THEN <<>>
    ELSE ordered_insert(ordered(SubSeq(rows, 1, Len(rows) - 1)), rows[Len(rows)])

\* lines 185-188: every row, in the ORDER BY order
fetch_bookings(conn) == ordered(conn.rows)

\* df_view whose total leaves the travel fee out
df_view_no_travel(conn, status_filter, date_from, date_to) ==
    LET df == fetch_bookings(conn)
        by_status == IF status_filter # <<>>
                     THEN SelectSeq(df, LAMBDA r :
                            \E i \in 1..Len(status_filter) : status_filter[i] = r.status)
                     ELSE df
        by_date == SelectSeq(by_status, LAMBDA r :
                     r.booking_date >= date_from /\ r.booking_date <= date_to)
    IN  [k \in 1..Len(by_date) |->
            [id |-> by_date[k].id, status |-> by_date[k].status,
             booking_date |-> by_date[k].booking_date,
             booking_time |-> by_date[k].booking_time,
             service_price |-> by_date[k].service_price,
             addons_price |-> by_date[k].addons_price,
             travel_fee |-> by_date[k].travel_fee,
             total |-> by_date[k].service_price + by_date[k].addons_price]]

\* lines 314, 330-339: the admin's table: the fetched rows, filtered by status
\* (when a status is ticked) and by booking date, with the total column
df_view(conn, status_filter, date_from, date_to) ==
    LET df == fetch_bookings(conn)
        by_status == IF status_filter # <<>>
                     THEN SelectSeq(df, LAMBDA r :
                            \E i \in 1..Len(status_filter) : status_filter[i] = r.status)
                     ELSE df
        by_date == SelectSeq(by_status, LAMBDA r :
                     r.booking_date >= date_from /\ r.booking_date <= date_to)
    IN  [k \in 1..Len(by_date) |->
            [id |-> by_date[k].id, status |-> by_date[k].status,
             booking_date |-> by_date[k].booking_date,
             booking_time |-> by_date[k].booking_time,
             service_price |-> by_date[k].service_price,
             addons_price |-> by_date[k].addons_price,
             travel_fee |-> by_date[k].travel_fee,
             total |-> by_date[k].service_price + by_date[k].addons_price
                         + by_date[k].travel_fee]]

\* the offer listed from the latest slot to the earliest
free_slots_latest_first(conn, booking_day, clock) ==
    LET slots == generate_slots(booking_day)
        untaken == SelectSeq(slots, LAMBDA s : ~slot_taken(conn, booking_day, s))
        kept == IF MIN_LEAD_TIME_MINUTES > 0
                THEN SelectSeq(untaken, LAMBDA s : lead_time_ok(booking_day, s, clock))
                ELSE untaken
    IN  [i \in 1..Len(kept) |-> kept[(Len(kept) + 1) - i]]

\* lines 244-246; clock is datetime.now()
free_slots(conn, booking_day, clock) ==
    LET slots == generate_slots(booking_day)
        untaken == SelectSeq(slots, LAMBDA s : ~slot_taken(conn, booking_day, s))
    IN  IF MIN_LEAD_TIME_MINUTES > 0
        THEN SelectSeq(untaken, LAMBDA s : lead_time_ok(booking_day, s, clock))
        ELSE untaken

\* a selectbox over the slots that are not taken, whatever the lead time
booking_time_choices_no_lead(conn, booking_day, clock) ==
    LET slots == generate_slots(booking_day)
        free == SelectSeq(slots, LAMBDA s : ~slot_taken(conn, booking_day, s))
    IN  IF slots = <<>> \/ free = <<>>
        THEN {None}
        ELSE {free[i] : i \in 1..Len(free)}

\* lines 239-251: what the time-slot selectbox can return in a run
booking_time_choices(conn, booking_day, clock) ==
    LET slots == generate_slots(booking_day)
        free == free_slots(conn, booking_day, clock)
    IN  IF slots = <<>> \/ free = <<>>
        THEN {None}
        ELSE {free[i] : i \in 1..Len(free)}

RECURSIVE sum_addons(_)
sum_addons(addons_selected) ==
    IF addons_selected = <<>> THEN 0
    ELSE ADDONS[Head(addons_selected)] + sum_addons(Tail(addons_selected))

\* validate without the consent check of lines 274-275
validate_no_consent(conn, f, booking_day, booking_time) ==
    LET p == normalize_phone(f.phone)
    IN  (IF strip(f.customer_name) = <<>> THEN <<"Name is required.">> ELSE <<>>)
        \o (IF p = <<>> THEN <<"Phone is required.">>
            ELSE IF ~is_valid_phone(p) THEN <<"Phone number looks invalid.">>
            ELSE <<>>)
        \o (IF strip(f.suburb) = <<>> THEN <<"Suburb is required.">> ELSE <<>>)
        \o (IF booking_time # None /\ slot_taken(conn, booking_day, booking_time)
            THEN <<"That time just got booked. Pick another slot.">>
            ELSE <<>>)

\* validate without the slot_taken guard of line 276
validate_no_slot_guard(conn, f, booking_day, booking_time) ==
    LET p == normalize_phone(f.phone)
    IN  (IF strip(f.customer_name) = <<>> THEN <<"Name is required.">> ELSE <<>>)
        \o (IF p = <<>> THEN <<"Phone is required.">>
            ELSE IF ~is_valid_phone(p) THEN <<"Phone number looks invalid.">>
            ELSE <<>>)
        \o (IF strip(f.suburb) = <<>> THEN <<"Suburb is required.">> ELSE <<>>)
        \o (IF ~f.consent THEN <<"You must confirm the details.">> ELSE <<>>)

\* lines 264-277: the error list of a submission
validate(conn, f, booking_day, booking_time) ==
    LET p == normalize_phone(f.phone)
    IN  (IF strip(f.customer_name) = <<>> THEN <<"Name is required.">> ELSE <<>>)
        \o (IF p = <<>> THEN <<"Phone is required.">>
            ELSE IF ~is_valid_phone(p) THEN <<"Phone number looks invalid.">>
            ELSE <<>>)
        \o (IF strip(f.suburb) = <<>> THEN <<"Suburb is required.">> ELSE <<>>)
        \o (IF ~f.consent THEN <<"You must confirm the details.">> ELSE <<>>)
        \o (IF booking_time # None /\ slot_taken(conn, booking_day, booking_time)
            THEN <<"That time just got booked. Pick another slot.">>
            ELSE <<>>)

\* the Booking built with a status outside the four
make_booking_pending(f, booking_day, booking_time) ==
    [customer_name |-> strip(f.customer_name),
     phone |-> normalize_phone(f.phone),
     suburb |-> strip(f.suburb),
     service_price |-> SERVICES[f.service_name],
     addons_price |-> sum_addons(f.addons_selected),
     travel_fee |-> TRAVEL_ZONES[f.travel_zone],
     booking_date |-> booking_day,
     booking_time |-> booking_time,
     status |-> "pending"]

\* lines 283-300: the Booking the handler builds
make_booking(f, booking_day, booking_time) ==
    [customer_name |-> strip(f.customer_name),
     phone |-> normalize_phone(f.phone),
     suburb |-> strip(f.suburb),
     service_price |-> SERVICES[f.service_name],
     addons_price |-> sum_addons(f.addons_selected),
     travel_fee |-> TRAVEL_ZONES[f.travel_zone],
     booking_date |-> booking_day,
     booking_time |-> booking_time,
     status |-> "new"]

(* ------------------------------ inputs -------------------------------- *)

NameInputs == {<<>>, <<" ">>, <<"K", "a", "i", " ">>}

PhoneInputs ==
    {<<>>, <<" ", "-">>, <<"1", "2", "3", "4", "5">>,
     <<"0", "4", " ", "1", "2", "3", "4", "-", "5", "6", "7", "8">>}

SuburbInputs == {<<>>, <<"K", "e", "w">>}

AddonInputs == {<<"Tube install labour (+$35)", "Brake pads install labour (+$40)">>}

\* a form with every field filled in well
GoodForms ==
    [customer_name : {<<"K", "a", "i", " ">>},
     phone : {<<"0", "4", " ", "1", "2", "3", "4", "-", "5", "6", "7", "8">>},
     suburb : {<<"K", "e", "w">>}, consent : {TRUE},
     service_name : {"Safety Tune ($99)"}, addons_selected : AddonInputs,
     travel_zone : {"Outside area (+$20 travel fee)"}]

\* what a customer may have typed and ticked when the button is pressed: a
\* good form, a good form with one field changed, or an untouched form
FormInputs ==
    GoodForms
    \cup {[g EXCEPT !.customer_name = n] : g \in GoodForms, n \in NameInputs}
    \cup {[g EXCEPT !.phone = p] : g \in GoodForms, p \in PhoneInputs}
    \cup {[g EXCEPT !.suburb = u] : g \in GoodForms, u \in SuburbInputs}
    \cup {[g EXCEPT !.consent = FALSE] : g \in GoodForms}
    \cup {[g EXCEPT !.customer_name = <<>>, !.phone = <<>>, !.suburb = <<>>,
                    !.consent = FALSE] : g \in GoodForms}

\* the form of a session that is not between validation and insert
NoForm ==
    [customer_name |-> <<>>, phone |-> <<>>, suburb |-> <<>>, consent |-> FALSE,
     service_name |-> "Safety Tune ($99)", addons_selected |-> <<>>,
     travel_zone |-> "Included area (no travel fee)"]

\* lines 235-237: the dates the date picker accepts, among those tried
DateInputs(clock) ==
    {d \in DatesTried : date_of(clock) <= d /\ d <= date_of(clock) + MAX_DAYS_AHEAD}

(* ------------------------------ the app ------------------------------- *)

NoProbe ==
    [for_day |-> 0, work_days |-> {}, day_start |-> DAY_START, day_end |-> DAY_START,
     slot_minutes |-> 1, slots |-> <<>>]

Init ==
    /\ db = [rows |-> <<>>, seq |-> 0]
    /\ now = StartNow
    /\ sess = [s \in Sessions |->
                [pc |-> "idle", booking_day |-> date_of(StartNow),
                 booking_time |-> None, form |-> NoForm]]
    /\ probe = NoProbe

\* submissions under way: a button run that has not yet finished
Pending == {s \in Sessions : sess[s].pc # "idle"}

\* A script run without the Submit button: the customer changes the date or
\* the time slot (lines 235-251); the handler of line 263 is skipped.
Render(s, d) ==
    /\ sess[s].pc = "idle"
    /\ d \in DateInputs(now)
    /\ \E t \in booking_time_choices(db, d, now) :
         sess' = [sess EXCEPT ![s] = [pc |-> "idle", booking_day |-> d,
                                      booking_time |-> t, form |-> NoForm]]
    /\ UNCHANGED <<db, now, probe>>

\* The customer presses "Submit booking", enabled since the last run left a
\* time slot selected (line 263).  The script runs again from the top:
\* lines 235-251 recompute the offered slots before the handler is entered.
Click(s) ==
    /\ sess[s].pc = "idle"
    /\ sess[s].booking_time # None
    /\ sess[s].booking_day \in DateInputs(now)
    /\ Len(db.rows) + Cardinality(Pending) < MaxBookings
    /\ \E t \in booking_time_choices(db, sess[s].booking_day, now) :
         sess' = [sess EXCEPT ![s].pc = "submit", ![s].booking_time = t]
    /\ UNCHANGED <<db, now, probe>>

\* lines 264-281: the handler validates; with errors it reports them and the
\* run ends, without errors it goes on to line 283.
Validate(s, f) ==
    /\ sess[s].pc = "submit"
    /\ f \in FormInputs
    /\ LET errors == validate(db, f, sess[s].booking_day, sess[s].booking_time)
       IN  IF errors # <<>>
           THEN sess' = [sess EXCEPT ![s].pc = "idle"]
           ELSE sess' = [sess EXCEPT ![s].pc = "insert", ![s].form = f]
    /\ UNCHANGED <<db, now, probe>>

\* lines 283-303: build the Booking and insert it; the run ends.
Insert(s) ==
    /\ sess[s].pc = "insert"
    /\ db' = insert_booking(db, make_booking(sess[s].form, sess[s].booking_day,
                                              sess[s].booking_time))
    /\ sess' = [sess EXCEPT ![s].pc = "idle", ![s].form = NoForm]
    /\ UNCHANGED <<now, probe>>

\* lines 345-352: the admin picks an id of the fetched table and a status
AdminUpdate(k, new_status) ==
    LET df == fetch_bookings(db)
    IN  /\ k \in 1..Len(df)
        /\ new_status \in {STATUSES[i] : i \in 1..Len(STATUSES)}
        /\ db' = update_status(db, df[k].id, new_status)
        /\ UNCHANGED <<now, sess, probe>>

\* the wall clock moves on
Tick ==
    /\ now + TickMinutes <= StartNow + (MaxTicks * TickMinutes)
    /\ now' = now + TickMinutes
    /\ UNCHANGED <<db, sess, probe>>

Next ==
    \/ \E s \in Sessions, d \in DatesTried : Render(s, d)
    \/ \E s \in Sessions : Click(s)
    \/ \E s \in Sessions, f \in FormInputs : Validate(s, f)
    \/ \E s \in Sessions : Insert(s)
    \/ \E k \in 1..MaxBookings, st \in {STATUSES[i] : i \in 1..Len(STATUSES)} : AdminUpdate(k, st)
    \/ Tick

Spec == Init /\ [][Next]_vars

(* ----------------- the booking store called directly ------------------ *)

TimeInputs == {<<"1", "6", ":", "0", "0">>, <<"1", "7", ":", "0", "0">>}

\* Booking values a caller may hand to the store (dataclass of lines 66-83)
BookingInputs ==
    [customer_name : {<<"K", "a", "i">>},
     phone : {<<"0", "4", "1", "2", "3", "4", "5", "6", "7", "8">>},
     suburb : {<<"K", "e", "w">>},
     service_price : {SERVICES["Safety Tune ($99)"]},
     addons_price : {ADDONS["Tube install labour (+$35)"]},
     travel_fee : {TRAVEL_ZONES["Outside area (+$20 travel fee)"]},
     booking_date : DatesTried, booking_time : TimeInputs,
     status : {STATUSES[i] : i \in 1..Len(STATUSES)}]

\* insert_booking (lines 154-182) on a Booking of the caller's making
StoreCreate(b) ==
    /\ Len(db.rows) < MaxBookings
    /\ db' = insert_booking(db, b)
    /\ UNCHANGED <<now, sess, probe>>

\* update_status (lines 191-193) with any id, of a row or not
StoreUpdate(booking_id, new_status) ==
    /\ db' = update_status(db, booking_id, new_status)
    /\ UNCHANGED <<now, sess, probe>>

NextStore ==
    \/ \E b \in BookingInputs : StoreCreate(b)
    \/ \E id \in 1..(MaxBookings + 1), st \in {STATUSES[i] : i \in 1..Len(STATUSES)} :
         StoreUpdate(id, st)

SpecStore == Init /\ [][NextStore]_vars

(* ------------------ the slot generator called directly ----------------- *)

WorkDayInputs == {WORK_DAYS, {0, 1, 2, 3, 4}, {5, 6}}

StartInputs == {DAY_START, [hour |-> 8, minute |-> 30]}

EndInputs ==
    {DAY_END, [hour |-> 17, minute |-> 30], [hour |-> 12, minute |-> 15],
     [hour |-> 9, minute |-> 0], [hour |-> 8, minute |-> 0]}

SlotMinuteInputs == {SLOT_MINUTES, 30, 45, 90}

\* generate_slots (lines 125-134) for one day under one work schedule
ProbeSlots(d, wd, ds, de, sm) ==
    /\ probe' = [for_day |-> d, work_days |-> wd, day_start |-> ds, day_end |-> de,
                 slot_minutes |-> sm,
                 slots |-> generate_slots_for(d, wd, ds, de, sm)]
    /\ UNCHANGED <<db, now, sess>>

NextSlots ==
    \E d \in 0..6, wd \in WorkDayInputs, ds \in StartInputs, de \in EndInputs,
       sm \in SlotMinuteInputs : ProbeSlots(d, wd, ds, de, sm)

SpecSlots == Init /\ [][NextSlots]_vars

(* ------------------------------ claims -------------------------------- *)

(* -------- submissions one at a time, cancelled rows left cancelled ------- *)

\* no run is between its slot_taken check (line 276) and its insert (line 301)
NoInsertPending == \A s \in Sessions : sess[s].pc # "insert"

\* lines 345-352, by an admin who leaves a cancelled booking cancelled
AdminUpdateKeepCancelled(k, new_status) ==
    LET df == fetch_bookings(db)
    IN  /\ k \in 1..Len(df)
        /\ ~(df[k].status = "cancelled" /\ new_status # "cancelled")
        /\ AdminUpdate(k, new_status)

\* the steps of the app when a run that has passed the check at line 276
\* reaches its insert at line 301 before any other session does anything
NextSeq ==
    \/ \E s \in Sessions, d \in DatesTried : NoInsertPending /\ Render(s, d)
    \/ \E s \in Sessions : NoInsertPending /\ Click(s)
    \/ \E s \in Sessions, f \in FormInputs : NoInsertPending /\ Validate(s, f)
    \/ \E s \in Sessions : Insert(s)
    \/ \E k \in 1..MaxBookings, st \in {STATUSES[i] : i \in 1..Len(STATUSES)} :
         NoInsertPending /\ AdminUpdateKeepCancelled(k, st)
    \/ Tick

SpecSeq == Init /\ [][NextSeq]_vars

(* ------------------------------ the claims ----------------------------- *)

Rows == 1..Len(db.rows)

StatusSet == {STATUSES[i] : i \in 1..Len(STATUSES)}

\* some row other than row i holds the slot (d, t) in table r without being cancelled
HeldByOther(r, i, d, t) ==
    \E j \in 1..Len(r) :
        /\ j # i
        /\ r[j].booking_date = d
        /\ r[j].booking_time = t
        /\ r[j].status # "cancelled"

Held(r, d, t) == HeldByOther(r, 0, d, t)

Unique(r) ==
    \A i \in 1..Len(r) :
        r[i].status # "cancelled" =>
            ~HeldByOther(r, i, r[i].booking_date, r[i].booking_time)

\* C1 as stated: in every reachable state no two bookings that are not
\* cancelled share the same (booking_date, booking_time).
C1_UniqueAlways == Unique(db.rows)

\* C1 amended: the pair is protected by the check at submit time only.  A
\* submission goes on to insert only if, at the moment of its check, no row
\* that is not cancelled holds its slot; and a step that breaks uniqueness is
\* an insert or a status update that re-opens a cancelled row.
C1_UniqueByCheck ==
    [][/\ \A s \in Sessions :
            (sess[s].pc = "submit" /\ sess'[s].pc = "insert") =>
                ~Held(db.rows, sess[s].booking_day, sess[s].booking_time)
       /\ (Unique(db.rows) /\ ~Unique(db'.rows)) =>
            \/ Len(db'.rows) = Len(db.rows) + 1
            \/ \E i \in Rows : /\ db.rows[i].status = "cancelled"
                               /\ db'.rows[i].status # "cancelled"]_vars

\* a submission has passed its check for a slot that a cancelled row used to hold
C1_Witness ==
    \E s \in Sessions :
        /\ sess[s].pc = "insert"
        /\ \E i \in Rows :
            /\ db.rows[i].status = "cancelled"
            /\ db.rows[i].booking_date = sess[s].booking_day
            /\ db.rows[i].booking_time = sess[s].booking_time

\* C2: the insert of a submission that passed its check is not checked
\* again: it appends a row with status new for its slot whatever the table
\* holds by then, so two submissions that both passed the check for one slot
\* both insert.
C2_BothInsert ==
    [][\A s \in Sessions :
        (sess[s].pc = "insert" /\ sess'[s].pc = "idle" /\ sess[s].booking_time # None) =>
            /\ Len(db'.rows) = Len(db.rows) + 1
            /\ SubSeq(db'.rows, 1, Len(db.rows)) = db.rows
            /\ db'.rows[Len(db'.rows)].status = "new"
            /\ db'.rows[Len(db'.rows)].booking_date = sess[s].booking_day
            /\ db'.rows[Len(db'.rows)].booking_time = sess[s].booking_time]_vars

\* two rows with status new hold one slot, after two sessions had both passed
\* the check (a row inserted by a submission is the only way into the table)
C2_Witness ==
    /\ Len(db.rows) = 2
    /\ db.rows[1].status = "new"
    /\ db.rows[2].status = "new"
    /\ db.rows[1].booking_date = db.rows[2].booking_date
    /\ db.rows[1].booking_time = db.rows[2].booking_time

\* a step that sets the status of row i to cancelled
Cancels(i) ==
    /\ Len(db'.rows) = Len(db.rows)
    /\ db.rows[i].status # "cancelled"
    /\ db'.rows[i].status = "cancelled"

\* C3 as stated: after updateStatus(id, cancelled) the slot of that row is
\* reported free by slot_taken.
C3_FreeAfterCancel ==
    [][\A i \in Rows :
        Cancels(i) =>
            ~slot_taken(db', db.rows[i].booking_date, db.rows[i].booking_time)]_vars

\* C3 amended: after updateStatus(id, cancelled) the slot of that row is
\* reported free by slot_taken, provided no other row that is not cancelled
\* holds the same (booking_date, booking_time).
C3_FreeAfterCancelIfAlone ==
    [][\A i \in Rows :
        (/\ Cancels(i)
         /\ ~HeldByOther(db'.rows, i, db.rows[i].booking_date, db.rows[i].booking_time)) =>
            ~slot_taken(db', db.rows[i].booking_date, db.rows[i].booking_time)]_vars

\* a cancelled row whose slot is offered to customers again
C3_Witness ==
    \E i \in Rows :
        /\ db.rows[i].status = "cancelled"
        /\ ~slot_taken(db, db.rows[i].booking_date, db.rows[i].booking_time)
        /\ db.rows[i].booking_time \in
             booking_time_choices(db, db.rows[i].booking_date, now)

\* C4: the store's create persists the row with status new whatever status
\* the Booking it is given carries.
C4_CreatedNew ==
    [][Len(db'.rows) = Len(db.rows) + 1 =>
        db'.rows[Len(db'.rows)].status = "new"]_vars

\* C5: the admin handler offers the id of every row with each of the four
\* statuses, and update_status on such an id and status goes through and
\* leaves that row with that status, whatever status the row had.
C5_UpdateSetsStatus ==
    LET df == fetch_bookings(db)
    IN  \A i \in Rows :
          /\ \E k \in 1..Len(df) : df[k].id = db.rows[i].id
          /\ \A st \in StatusSet :
               LET c == update_status(db, db.rows[i].id, st)
               IN  /\ Len(c.rows) = Len(db.rows)
                   /\ c.rows[i].status = st

\* a done row and a cancelled row, both open to every update
C5_Witness ==
    /\ \E i \in Rows : db.rows[i].status = "done"
    /\ \E i \in Rows : db.rows[i].status = "cancelled"

\* C6: a slot the availability filter offers for a date is held by no row of
\* that date and time whose status is new, confirmed or done.
C6_OfferedNotTaken ==
    \A d \in DatesTried :
        LET free == free_slots(db, d, now)
        IN  \A k \in 1..Len(free) :
                ~\E i \in Rows :
                    /\ db.rows[i].booking_date = d
                    /\ db.rows[i].booking_time = free[k]
                    /\ db.rows[i].status \in {"new", "confirmed", "done"}

\* a done row keeps its slot from the offer while a cancelled row's slot is offered
C6_Witness ==
    \E i, j \in Rows :
        /\ db.rows[i].status = "done"
        /\ db.rows[j].status = "cancelled"
        /\ db.rows[i].booking_date = db.rows[j].booking_date
        /\ db.rows[i].booking_time \notin
             booking_time_choices(db, db.rows[i].booking_date, now)
        /\ db.rows[j].booking_time \in
             booking_time_choices(db, db.rows[j].booking_date, now)

\* start of the k-th generated slot of day d, from the schedule
SlotStart(d, k) == combine(d, DAY_START) + ((k - 1) * SLOT_MINUTES)

\* the filter offers the label t in the offer free
Offered(free, t) == \E k \in 1..Len(free) : free[k] = t

\* C7: the filter offers no slot that starts before now + MIN_LEAD_TIME_MINUTES
\* and offers every free slot that starts at or after it; at 14:30 the 15:00
\* slot of today is not offered and the 16:00 slot, if free, is.
C7_LeadTime ==
    /\ \A d \in DatesTried :
         LET free == free_slots(db, d, now)
             slots == generate_slots(d)
         IN  \A k \in 1..Len(slots) :
               /\ Offered(free, slots[k]) =>
                    SlotStart(d, k) >= now + MIN_LEAD_TIME_MINUTES
               /\ (/\ SlotStart(d, k) >= now + MIN_LEAD_TIME_MINUTES
                   /\ ~Held(db.rows, d, slots[k])) =>
                    Offered(free, slots[k])
    /\ time_of(now) = [hour |-> 14, minute |-> 30] =>
         LET free == free_slots(db, date_of(now), now)
         IN  /\ ~Offered(free, <<"1", "5", ":", "0", "0">>)
             /\ ~Held(db.rows, date_of(now), <<"1", "6", ":", "0", "0">>) =>
                  Offered(free, <<"1", "6", ":", "0", "0">>)

\* at 14:30 a customer has the 16:00 slot of today selected
C7_Witness ==
    /\ time_of(now) = [hour |-> 14, minute |-> 30]
    /\ \E s \in Sessions :
        /\ sess[s].booking_day = date_of(now)
        /\ sess[s].booking_time = <<"1", "6", ":", "0", "0">>

\* minutes after midnight that an HH:MM label reads as
LabelMinutes(l) == (int_of(SubSeq(l, 1, 2)) * 60) + int_of(SubSeq(l, 4, 5))

\* C8: on a work day generate_slots returns, in increasing order, the labels
\* of day_start + k * slot_minutes for exactly the k >= 0 with
\* day_start + (k + 1) * slot_minutes <= day_end; for 09:00, 18:00 and 60
\* minutes these are the nine labels 09:00 .. 17:00.
C8_SlotLabels ==
    LET start == (probe.day_start.hour * 60) + probe.day_start.minute
        end == (probe.day_end.hour * 60) + probe.day_end.minute
        ks == {k \in 0..(24 * 60) : start + ((k + 1) * probe.slot_minutes) <= end}
    IN  weekday(probe.for_day) \in probe.work_days =>
          /\ Len(probe.slots) = Cardinality(ks)
          /\ \A k \in ks :
               /\ k + 1 \in 1..Len(probe.slots)
               /\ Len(probe.slots[k + 1]) = 5
               /\ probe.slots[k + 1][3] = ":"
               /\ LabelMinutes(probe.slots[k + 1]) = start + (k * probe.slot_minutes)
          /\ (/\ probe.day_start = [hour |-> 9, minute |-> 0]
              /\ probe.day_end = [hour |-> 18, minute |-> 0]
              /\ probe.slot_minutes = 60) =>
               probe.slots =
                 << <<"0", "9", ":", "0", "0">>, <<"1", "0", ":", "0", "0">>,
                    <<"1", "1", ":", "0", "0">>, <<"1", "2", ":", "0", "0">>,
                    <<"1", "3", ":", "0", "0">>, <<"1", "4", ":", "0", "0">>,
                    <<"1", "5", ":", "0", "0">>, <<"1", "6", ":", "0", "0">>,
                    <<"1", "7", ":", "0", "0">> >>

\* a work day of 08:30 to 17:30 in slots of 45 minutes: twelve slots, the
\* last one starting at 16:45
C8_Witness ==
    /\ weekday(probe.for_day) \in probe.work_days
    /\ probe.day_start = [hour |-> 8, minute |-> 30]
    /\ probe.day_end = [hour |-> 17, minute |-> 30]
    /\ probe.slot_minutes = 45
    /\ Len(probe.slots) = 12
    /\ probe.slots[12] = <<"1", "6", ":", "4", "5">>

\* C9: generate_slots is empty for every date whose weekday is outside the
\* work days, a session showing such a date has no time slot and cannot
\* submit, and no row is booked on such a date.
C9_NoSlotsOffWorkDays ==
    /\ \A d \in 0..(date_of(now) + MAX_DAYS_AHEAD) :
         weekday(d) \notin WORK_DAYS => generate_slots(d) = <<>>
    /\ \A s \in Sessions :
         weekday(sess[s].booking_day) \notin WORK_DAYS =>
           /\ sess[s].booking_time = None
           /\ sess[s].pc = "idle"
           /\ ~ENABLED Click(s)
    /\ \A i \in Rows : weekday(db.rows[i].booking_date) \in WORK_DAYS

\* a customer has picked a Sunday while a Saturday booking is in the table
C9_Witness ==
    /\ \E s \in Sessions : weekday(sess[s].booking_day) \notin WORK_DAYS
    /\ db.rows # <<>>

\* the fields of a form pass the checks of lines 266-275
FieldsValid(f) ==
    /\ \E i \in 1..Len(f.customer_name) : f.customer_name[i] # " "
    /\ Cardinality({i \in 1..Len(f.phone) : isdigit(f.phone[i])}) \in 9..12
    /\ \E i \in 1..Len(f.suburb) : f.suburb[i] # " "
    /\ f.consent

\* C10: a submission that fails a validation writes nothing, and a row is
\* inserted only by a submission whose error list was empty: valid fields
\* and, when it was checked, a slot no row that is not cancelled held.
C10_RejectedWritesNothing ==
    [][/\ \A s \in Sessions :
            (sess[s].pc = "submit" /\ sess'[s].pc # "submit") =>
                /\ db' = db
                /\ sess'[s].pc = "insert" =>
                     /\ FieldsValid(sess'[s].form)
                     /\ ~Held(db.rows, sess[s].booking_day, sess[s].booking_time)
                /\ Held(db.rows, sess[s].booking_day, sess[s].booking_time) =>
                     sess'[s].pc = "idle"
       /\ db'.rows # db.rows /\ Len(db'.rows) > Len(db.rows) =>
            \E s \in Sessions :
                /\ sess[s].pc = "insert"
                /\ sess'[s].pc = "idle"
                /\ FieldsValid(sess[s].form)
                /\ db'.rows = Append(db.rows, db'.rows[Len(db'.rows)])]_vars

\* a submission reaches its validation after another session took its slot
C10_Witness ==
    \E s \in Sessions :
        /\ sess[s].pc = "submit"
        /\ sess[s].booking_time # None
        /\ Held(db.rows, sess[s].booking_day, sess[s].booking_time)

\* a step in which session s inserts its booking
Inserts(s) ==
    /\ sess[s].pc = "insert"
    /\ sess'[s].pc = "idle"
    /\ Len(db'.rows) = Len(db.rows) + 1

\* C11: right after a create, the list holds the created row with status
\* new, and the admin's table shows it with a total equal to its
\* service_price + addons_price + travel_fee (99 + 75 + 20 for the Safety
\* Tune with tube and brake pad labour in the outside area).
C11_CreateThenList ==
    [][\A s \in Sessions :
        Inserts(s) =>
            LET df == fetch_bookings(db')
                view == df_view(db', <<"new", "confirmed">>,
                                date_of(now) - 14, date_of(now) + MAX_DAYS_AHEAD)
            IN  /\ \E k \in 1..Len(df) :
                     /\ df[k].id = db'.seq
                     /\ df[k].status = "new"
                     /\ df[k].booking_date = sess[s].booking_day
                     /\ df[k].booking_time = sess[s].booking_time
                /\ \E k \in 1..Len(view) :
                     /\ view[k].id = db'.seq
                     /\ view[k].status = "new"
                     /\ view[k].total = view[k].service_price + view[k].addons_price
                                          + view[k].travel_fee
                     /\ view[k].service_price = SERVICES[sess[s].form.service_name]
                     /\ view[k].travel_fee = TRAVEL_ZONES[sess[s].form.travel_zone]
                     /\ sess[s].form.addons_selected =
                          <<"Tube install labour (+$35)",
                            "Brake pads install labour (+$40)">> =>
                          /\ view[k].addons_price = 35 + 40
                          /\ view[k].total = 99 + 75 + 20]_vars

\* a created row is listed with its total of 194
C11_Witness ==
    \E k \in 1..Len(df_view(db, <<>>, 0, date_of(now) + MAX_DAYS_AHEAD)) :
        /\ df_view(db, <<>>, 0, date_of(now) + MAX_DAYS_AHEAD)[k].status = "new"
        /\ df_view(db, <<>>, 0, date_of(now) + MAX_DAYS_AHEAD)[k].total = 194

\* C12: in every reachable state the status of every row is one of new,
\* confirmed, done, cancelled.
C12_StatusInSet ==
    \A i \in Rows : db.rows[i].status \in {"new", "confirmed", "done", "cancelled"}

\* a row as created next to a row the admin has moved on
C12_Witness ==
    /\ \E i \in Rows : db.rows[i].status = "new"
    /\ \E i \in Rows : db.rows[i].status = "confirmed"

\* C13: the ids of the rows are distinct and grow in the order of creation,
\* a created row gets an id above every id given out before, and a step never
\* changes the id of a row, whatever creates and status updates interleave.
C13_IdsIncrease ==
    [][/\ \A i, j \in Rows : i < j => db.rows[i].id < db.rows[j].id
       /\ \A i \in Rows : db.rows[i].id <= db.seq
       /\ \A i \in Rows : i <= Len(db'.rows) /\ db'.rows[i].id = db.rows[i].id
       /\ Len(db'.rows) > Len(db.rows) =>
            /\ db'.rows[Len(db'.rows)].id > db.seq
            /\ db'.seq >= db'.rows[Len(db'.rows)].id
            /\ \A i \in Rows : db'.rows[Len(db'.rows)].id > db.rows[i].id]_vars

\* a second row was created after the first one was cancelled
C13_Witness ==
    /\ Len(db.rows) = 2
    /\ db.rows[1].status = "cancelled"
    /\ db.rows[1].id = 1
    /\ db.rows[2].id = 2

\* C14: in every reachable state the booking_time of every row is one of the
\* labels generate_slots returns for the booking_date of that row.
C14_TimeIsSlot ==
    \A i \in Rows :
        \E k \in 1..Len(generate_slots(db.rows[i].booking_date)) :
            generate_slots(db.rows[i].booking_date)[k] = db.rows[i].booking_time

\* a row is booked on the last slot of a Saturday
C14_Witness ==
    \E i \in Rows :
        /\ db.rows[i].booking_time = <<"1", "7", ":", "0", "0">>
        /\ weekday(db.rows[i].booking_date) = 5

\* C15: for a date and a clock the availability filter returns exactly the
\* generated slots that no row holds without being cancelled and that start
\* at or after the clock + MIN_LEAD_TIME_MINUTES, each once, in the order
\* generate_slots lists them; the clock is the present one and one two hours
\* earlier, when more of the day is still open.
C15_ExactSubsequence ==
    \A d \in DatesTried :
        \A c \in {now, now - 120} :
            LET slots == generate_slots(d)
                free == free_slots(db, d, c)
                keep == {k \in 1..Len(slots) :
                            /\ ~Held(db.rows, d, slots[k])
                            /\ SlotStart(d, k) >= c + MIN_LEAD_TIME_MINUTES}
            IN  /\ Len(free) = Cardinality(keep)
                /\ \A k \in keep :
                     free[Cardinality({m \in keep : m <= k})] = slots[k]

\* with the clock two hours back the 16:00 slot of today is held by a row,
\* slots on both sides of it are offered and the morning is left out
C15_Witness ==
    /\ Held(db.rows, date_of(now), <<"1", "6", ":", "0", "0">>)
    /\ Len(free_slots(db, date_of(now), now - 120)) >= 2
    /\ Offered(free_slots(db, date_of(now), now - 120), <<"1", "5", ":", "0", "0">>)
    /\ Offered(free_slots(db, date_of(now), now - 120), <<"1", "7", ":", "0", "0">>)
    /\ ~Offered(free_slots(db, date_of(now), now - 120), <<"0", "9", ":", "0", "0">>)

\* C16: update_status on an id and a status changes the status of the row
\* with that id and nothing else: every other field, every other row and the
\* number of rows stay, and with an id no row has the table stays as it is;
\* and no step of the program removes a row or changes a field other than
\* status of a row that exists.
C16_OnlyStatusChanges ==
    [][/\ Len(db'.rows) >= Len(db.rows)
       /\ \A i \in Rows :
            db'.rows[i] = [db.rows[i] EXCEPT !.status = db'.rows[i].status]
       /\ \A id \in 1..(MaxBookings + 1) :
            \A st \in StatusSet :
                LET c == update_status(db, id, st)
                IN  /\ Len(c.rows) = Len(db.rows)
                    /\ c.seq = db.seq
                    /\ \A i \in Rows :
                         IF db.rows[i].id = id
                         THEN c.rows[i] = [db.rows[i] EXCEPT !.status = st]
                         ELSE c.rows[i] = db.rows[i]
                    /\ (\A i \in Rows : db.rows[i].id # id) => c = db]_vars

\* the admin has set one of two rows to done, the other is as created, and
\* the id after the last one is the id of no row
C16_Witness ==
    /\ Len(db.rows) = 2
    /\ db.rows[1].status = "done"
    /\ db.rows[2].status = "new"
    /\ \A i \in Rows : db.rows[i].id # db.seq + 1

\* C17: when every submission runs its slot_taken check and its insert with
\* no step of another session in between, and no status update takes a row
\* from cancelled to another status, no two rows that are not cancelled have
\* the same booking_date and booking_time.
C17_UniqueWhenSequential ==
    \A i, j \in Rows :
        (/\ i < j
         /\ db.rows[i].status # "cancelled"
         /\ db.rows[j].status # "cancelled") =>
            <<db.rows[i].booking_date, db.rows[i].booking_time>> #
                <<db.rows[j].booking_date, db.rows[j].booking_time>>

\* a slot booked again after the row that held it was cancelled
C17_Witness ==
    \E i, j \in Rows :
        /\ i < j
        /\ db.rows[i].status = "cancelled"
        /\ db.rows[j].status # "cancelled"
        /\ db.rows[i].booking_date = db.rows[j].booking_date
        /\ db.rows[i].booking_time = db.rows[j].booking_time

\* a step in which session s presses Submit and the script runs again
Submits(s) ==
    /\ sess[s].pc = "idle"
    /\ sess'[s].pc = "submit"

\* C18: the slot a submission carries into its handler passes the whole
\* availability check of the run that handles the click: it is a generated
\* slot of its date, no row that is not cancelled holds it, and it starts at
\* or after the clock of that run + MIN_LEAD_TIME_MINUTES, so a slot selected
\* earlier that no longer satisfies the lead time is not carried on; the
\* handler goes on to insert only while the slot is still not held, and the
\* row inserted is for that date and slot.
C18_SubmittedSlotAvailable ==
    [][\A s \in Sessions :
        /\ (Submits(s) /\ sess'[s].booking_time # None) =>
             LET d == sess'[s].booking_day
                 t == sess'[s].booking_time
                 slots == generate_slots(d)
             IN  /\ \E k \in 1..Len(slots) :
                        /\ slots[k] = t
                        /\ SlotStart(d, k) >= now + MIN_LEAD_TIME_MINUTES
                 /\ ~Held(db.rows, d, t)
                 /\ ~lead_time_ok(d, sess[s].booking_time, now) =>
                        t # sess[s].booking_time
        /\ (sess[s].pc = "submit" /\ sess'[s].pc = "insert") =>
             /\ sess'[s].booking_day = sess[s].booking_day
             /\ sess'[s].booking_time = sess[s].booking_time
             /\ sess[s].booking_time # None =>
                    ~Held(db.rows, sess[s].booking_day, sess[s].booking_time)
        /\ Inserts(s) =>
             /\ db'.rows[Len(db'.rows)].booking_date = sess[s].booking_day
             /\ db'.rows[Len(db'.rows)].booking_time = sess[s].booking_time
        /\ (sess[s].pc # "idle" /\ sess'[s].pc # "idle") =>
             /\ sess'[s].booking_day = sess[s].booking_day
             /\ sess'[s].booking_time = sess[s].booking_time]_vars

\* at 15:30 a row is booked for today's 17:00 while a customer still has the
\* 16:00 slot selected, offered when the clock read an hour less
C18_Witness ==
    /\ time_of(now) = [hour |-> 15, minute |-> 30]
    /\ \E i \in Rows :
        /\ db.rows[i].booking_date = date_of(now)
        /\ db.rows[i].booking_time = <<"1", "7", ":", "0", "0">>
    /\ \E s \in Sessions :
        /\ sess[s].pc = "idle"
        /\ sess[s].booking_day = date_of(now)
        /\ sess[s].booking_time = <<"1", "6", ":", "0", "0">>
        /\ ~lead_time_ok(sess[s].booking_day, sess[s].booking_time, now)

====
